---- MODULE Spec2Model ----
(***************************************************************************)
(* Model of the gravity-model travel-demand pipeline of                    *)
(* scripts/gravity_model.py: divide_into_zones, populate_zone_attributes,  *)
(* calculate_zone_attraction, calculate_zone_production,                   *)
(* normalize_zone_production_and_attraction, calculate_zone_distance,      *)
(* calculate_network_distance, gravity_model_demand_matrix, load_db and    *)
(* run_gravity_model.                                                      *)
(*                                                                         *)
(* Floating-point values are modelled as exact decimal rationals           *)
(* <<n, d, e>> = (n / d) * 10^e  together with the IEEE specials NaN and   *)
(* +/-Inf that numpy produces on division by zero.  Rounding error is not  *)
(* modelled: an equality "within 1e-6" is decided on the exact value.      *)
(***************************************************************************)
EXTENDS Integers, Sequences, FiniteSets, TLC

(***************************************************************************)
(* Numbers.                                                                *)
(***************************************************************************)
RECURSIVE Gcd(_, _)
Gcd(a, b) == IF b = 0 THEN a ELSE Gcd(b, a % b)

Abs(x) == IF x < 0 THEN -x ELSE x

Lcm(a, b) == (a \div Gcd(a, b)) * b

RECURSIVE Pow10(_)
Pow10(k) == IF k = 0 THEN 1 ELSE 10 * Pow10(k - 1)

Min2(a, b) == IF a <= b THEN a ELSE b

NaN == <<0, 0, 0>>
Inf == <<1, 0, 0>>
NegInf == <<-1, 0, 0>>
Zero == <<0, 1, 0>>

IsNaN(x) == x = NaN
IsInf(x) == x[2] = 0 /\ x[1] # 0
IsFinite(x) == x[2] # 0
IsZero(x) == x[2] # 0 /\ x[1] = 0
Sign(x) == IF x[1] > 0 THEN 1 ELSE IF x[1] < 0 THEN -1 ELSE 0

\* canonical form of (n / d) * 10^e: n and d are coprime and neither is a
\* multiple of 5, which makes the representation of a value unique
RECURSIVE Strip(_, _, _)
Strip(n, d, e) ==
    IF n % 5 = 0 THEN Strip(n \div 5, d * 2, e + 1)
    ELSE IF d % 5 = 0 THEN Strip(n * 2, d \div 5, e - 1)
    ELSE LET g == Gcd(Abs(n), d) IN <<n \div g, d \div g, e>>

Norm(n, d, e) ==
    IF n = 0 THEN Zero
    ELSE LET g == Gcd(Abs(n), d) IN Strip(n \div g, d \div g, e)

\* the decimal literal n * 10^e
Dec(n, e) == Norm(n, 1, e)

Num(k) == Norm(k, 1, 0)

FNeg(x) == <<-x[1], x[2], x[3]>>

FAbs(x) == <<Abs(x[1]), x[2], x[3]>>

FMul(x, y) ==
    IF IsNaN(x) \/ IsNaN(y) THEN NaN
    ELSE IF IsInf(x) \/ IsInf(y)
         THEN (IF Sign(x) * Sign(y) = 0 THEN NaN
               ELSE IF Sign(x) * Sign(y) > 0 THEN Inf ELSE NegInf)
    ELSE IF x[1] = 0 \/ y[1] = 0 THEN Zero
    ELSE LET g1 == Gcd(Abs(x[1]), y[2])
             g2 == Gcd(Abs(y[1]), x[2])
         IN Norm((x[1] \div g1) * (y[1] \div g2),
                 (x[2] \div g2) * (y[2] \div g1),
                 x[3] + y[3])

\* true division of numpy float64 scalars: x / 0 is nan or +/-inf, never an
\* exception
FDiv(x, y) ==
    IF IsNaN(x) \/ IsNaN(y) THEN NaN
    ELSE IF IsInf(y) THEN (IF IsInf(x) THEN NaN ELSE Zero)
    ELSE IF IsZero(y)
         THEN (IF Sign(x) = 0 THEN NaN ELSE IF Sign(x) > 0 THEN Inf ELSE NegInf)
    ELSE IF IsInf(x) THEN (IF Sign(x) * Sign(y) > 0 THEN Inf ELSE NegInf)
    ELSE FMul(x, IF y[1] > 0 THEN <<y[2], y[1], -y[3]>>
                 ELSE <<-y[2], -y[1], -y[3]>>)

FAdd(x, y) ==
    IF IsNaN(x) \/ IsNaN(y) THEN NaN
    ELSE IF IsInf(x) THEN (IF IsInf(y) /\ Sign(x) # Sign(y) THEN NaN ELSE x)
    ELSE IF IsInf(y) THEN y
    ELSE IF x[1] = 0 THEN y
    ELSE IF y[1] = 0 THEN x
    ELSE LET e == Min2(x[3], y[3])
             l == Lcm(x[2], y[2])
             nx == x[1] * Pow10(x[3] - e) * (l \div x[2])
             ny == y[1] * Pow10(y[3] - e) * (l \div y[2])
         IN Norm(nx + ny, l, e)

FSub(x, y) == FAdd(x, FNeg(y))

\* p * 10^k < q for positive p, q and k >= 0, without leaving the integers
\* TLC can represent
RECURSIVE ScaledLess(_, _, _)
ScaledLess(p, q, k) ==
    IF k = 0 THEN p < q
    ELSE IF p > q \div 10 THEN FALSE
    ELSE ScaledLess(p * 10, q, k - 1)

\* p < q * 10^k for positive p, q and k >= 0
RECURSIVE LessScaled(_, _, _)
LessScaled(p, q, k) ==
    IF k = 0 THEN p < q
    ELSE IF q >= p \div 10 + 1 THEN TRUE
    ELSE LessScaled(p, q * 10, k - 1)

\* x < y for positive finite x, y
PosLess(x, y) ==
    LET p == x[1] * y[2]
        q == y[1] * x[2]
    IN IF x[3] >= y[3] THEN ScaledLess(p, q, x[3] - y[3])
       ELSE LessScaled(p, q, y[3] - x[3])

\* x < y as IEEE decides it: any comparison with nan is false
FLt(x, y) ==
    /\ ~IsNaN(x)
    /\ ~IsNaN(y)
    /\ x # y
    /\ IF IsInf(x) THEN Sign(x) < 0
       ELSE IF IsInf(y) THEN Sign(y) > 0
       ELSE IF Sign(x) # Sign(y) THEN Sign(x) < Sign(y)
       ELSE IF Sign(x) > 0 THEN PosLess(x, y)
       ELSE PosLess(FNeg(y), FNeg(x))

FLe(x, y) == ~IsNaN(x) /\ ~IsNaN(y) /\ (x = y \/ FLt(x, y))

\* |x - y| < 1e-6
Tolerance == Dec(1, -6)
Close(x, y) == FLt(FAbs(FSub(x, y)), Tolerance)

\* exact square root of a square integer
ISqrt(n) == CHOOSE r \in 0..n : r * r = n

\* x ** b for the exponents the model uses; the distances drawn below are
\* squares of integers, so that the root is exact
Half == Dec(5, -1)
Pow(x, b) ==
    IF b = Half THEN Num(ISqrt((x[1] * Pow10(x[3])) \div x[2]))
    ELSE IF b = Num(1) THEN x
    ELSE FMul(x, x)

(***************************************************************************)
(* Program constants.                                                      *)
(***************************************************************************)
MORNING == 1
AM_RUSH == 2
MID_DAY == 3
PM_RUSH == 4
EVENING == 5
TimePeriod == {MORNING, AM_RUSH, MID_DAY, PM_RUSH, EVENING}

Landuse == {"commercial", "retail", "industrial", "residential"}

Building == {"apartments", "barracks", "bungalow", "detached", "dormitory",
             "hotel", "house", "semidetached_house"}

TRIPS_GENERATED ==
    [t \in TimePeriod |->
        CASE t = MORNING -> Num(20000)
          [] t = AM_RUSH -> Num(150000)
          [] t = MID_DAY -> Num(600000)
          [] t = PM_RUSH -> Num(150000)
          [] t = EVENING -> Num(20000)]

BUILDING_OCCUPANCY ==
    [b \in Building |->
        CASE b = "apartments" -> 400
          [] b = "barracks" -> 200
          [] b = "bungalow" -> 4
          [] b = "detached" -> 4
          [] b = "dormitory" -> 400
          [] b = "hotel" -> 200
          [] b = "house" -> 4
          [] b = "semidetached_house" -> 4]

GRAVITY_BETA == Half

LAND_WEIGHTS ==
    [l \in Landuse |->
        CASE l = "commercial" ->
                [t \in TimePeriod |-> IF t = AM_RUSH THEN Num(1)
                                      ELSE IF t = MID_DAY THEN Dec(7, -1)
                                      ELSE Dec(5, -1)]
          [] l = "retail" ->
                [t \in TimePeriod |-> IF t \in {MORNING, EVENING}
                                      THEN Dec(6, -1) ELSE Num(1)]
          [] l = "industrial" ->
                [t \in TimePeriod |-> IF t \in {MORNING, EVENING}
                                      THEN Dec(5, -1) ELSE Num(1)]
          [] l = "residential" ->
                [t \in TimePeriod |-> IF t \in {MORNING, AM_RUSH} THEN Dec(5, -1)
                                      ELSE IF t = PM_RUSH THEN Num(1)
                                      ELSE Dec(7, -1)]]

SCORE_POIS_WEIGHT == Dec(3, -1)
SCORE_POPN_WEIGHT == Dec(3, -1)
SCORE_LAND_WEIGHT == Dec(4, -1)

(***************************************************************************)
(* State.                                                                  *)
(***************************************************************************)
VARIABLES
    pc,             \* the stage run_gravity_model is about to execute
    raised,         \* the exception that ended the run, or "none"
    num_rows,       \* arguments of run_gravity_model
    num_cols,
    bbox,           \* city.nodes.total_bounds: <<x_min, y_min, x_max, y_max>>
    city,           \* what the city holds inside each zone
    zones,          \* the zone table: sequence of rows [zone_id, geometry]
    population,     \* column zones['population'], by zone_id
    land,           \* column zones['land']
    pois,           \* column zones['pois']
    attraction,     \* column zones['attraction']: zone_id -> period -> value
    production,     \* column zones['production']
    kind,           \* scalar type of the scores: "np" (float64) or "py" (float)
    measure,        \* the pair measure the distance builder evaluates
    calls,          \* how often the builder evaluated the measure, per pair
    distances,      \* the distance matrix
    demand_matrix,  \* the solver's result
    db,             \* committed content of tables zone and demand
    solved,         \* per origin, how many periods of its row are computed
    pending,        \* tables as the connection sees them inside its open
                    \* transaction, Unset when no transaction is open
    figure,         \* what visualize_demand left: "none", "saved" or "error"
    main            \* populate_db.main: its stage, city and cached files

vars == <<pc, raised, num_rows, num_cols, bbox, city, zones, population, land,
          pois, attraction, production, kind, measure, calls, distances,
          demand_matrix, db, solved, pending, figure, main>>

Unset == <<>>

ZoneIds(zs) == {zs[k].zone_id : k \in 1..Len(zs)}

(***************************************************************************)
(* gravity_model_demand_matrix                                             *)
(***************************************************************************)
\* 1 / (distance ** GRAVITY_BETA) on Python floats: a zero divisor raises
\* ZeroDivisionError
ImpedanceRaises(distance) == IsZero(Pow(distance, GRAVITY_BETA))

Impedance(distance) == FDiv(Num(1), Pow(distance, GRAVITY_BETA))

\* the inner loop without its "if idx1 == idx2: continue"
RECURSIVE trips_denominator_with_self(_, _, _, _, _, _)
trips_denominator_with_self(zs, attr, dist, t, idx1, k) ==
    IF k = 0 THEN Zero
    ELSE FAdd(trips_denominator_with_self(zs, attr, dist, t, idx1, k - 1),
              FMul(attr[zs[k].zone_id][t],
                   IF idx1 = zs[k].zone_id THEN Num(1)
                   ELSE Impedance(dist[idx1][zs[k].zone_id])))

\* the value of trips_denominator after the first k rows of the inner loop
RECURSIVE trips_denominator(_, _, _, _, _, _)
trips_denominator(zs, attr, dist, t, idx1, k) ==
    IF k = 0 THEN Zero
    ELSE LET idx2 == zs[k].zone_id
             prev == trips_denominator(zs, attr, dist, t, idx1, k - 1)
         IN IF idx1 = idx2 THEN prev
            ELSE FAdd(prev, FMul(attr[idx2][t], Impedance(dist[idx1][idx2])))

trips_numerator(prod, attr, dist, t, idx1, idx2) ==
    FMul(FMul(prod[idx1][t], attr[idx2][t]), Impedance(dist[idx1][idx2]))

\* trips_denominator is still the Python int 0 when the inner loop added
\* nothing to it; otherwise it has the scalar type of the scores
DenominatorIsPython(zs, knd, idx1) ==
    \/ knd = "py"
    \/ \A k \in 1..Len(zs) : zs[k].zone_id = idx1

\* the solver raises ZeroDivisionError for origin idx1 in period t
SolverRowRaises(zs, attr, dist, knd, t, idx1) ==
    \/ \E k \in 1..Len(zs) :
          /\ zs[k].zone_id # idx1
          /\ ImpedanceRaises(dist[idx1][zs[k].zone_id])
    \/ /\ DenominatorIsPython(zs, knd, idx1)
       /\ IsZero(trips_denominator(zs, attr, dist, t, idx1, Len(zs)))

SolverRaises(zs, attr, dist, knd) ==
    \E t \in TimePeriod : \E k \in 1..Len(zs) :
        SolverRowRaises(zs, attr, dist, knd, t, zs[k].zone_id)

\* the matrix returned when no division raised
gravity_model_demand_matrix(zs, prod, attr, dist) ==
    [idx1 \in ZoneIds(zs) |-> [idx2 \in ZoneIds(zs) |-> [t \in TimePeriod |->
        FDiv(IF idx1 = idx2 THEN Zero
             ELSE trips_numerator(prod, attr, dist, t, idx1, idx2),
             trips_denominator(zs, attr, dist, t, idx1, Len(zs)))]]]

(***************************************************************************)
(* normalize_zone_production_and_attraction                                *)
(***************************************************************************)
\* the total runs over the scores of all periods
RECURSIVE SeriesSumOfAllPeriods(_, _, _, _)
SeriesSumOfAllPeriods(zs, col, t, k) ==
    IF k = 0 THEN Zero
    ELSE LET RECURSIVE upto(_)
             upto(s) == IF s = 0 THEN Zero
                        ELSE LET x == col[zs[k].zone_id][s]
                             IN IF IsNaN(x) THEN upto(s - 1)
                                ELSE FAdd(upto(s - 1), x)
         IN FAdd(SeriesSumOfAllPeriods(zs, col, t, k - 1), upto(EVENING))

\* Series.sum() over the first k rows: pandas skips nan (skipna=True), so the
\* sum of a column that is all nan is 0.0
RECURSIVE SeriesSum(_, _, _, _)
SeriesSum(zs, col, t, k) ==
    IF k = 0 THEN Zero
    ELSE LET x == col[zs[k].zone_id][t]
             prev == SeriesSum(zs, col, t, k - 1)
         IN IF IsNaN(x) THEN prev ELSE FAdd(prev, x)

\* x[time_period] / ttl * trips_per_hour on float64 scalars
Rescaled(zs, col) ==
    [z \in ZoneIds(zs) |-> [t \in TimePeriod |->
        FMul(FDiv(col[z][t], SeriesSum(zs, col, t, Len(zs))),
             TRIPS_GENERATED[t])]]

\* the assert of the function fails in some period
NormalizeRaises(zs, prod, attr) ==
    \E t \in TimePeriod :
        ~Close(SeriesSum(zs, Rescaled(zs, prod), t, Len(zs)),
               SeriesSum(zs, Rescaled(zs, attr), t, Len(zs)))

(***************************************************************************)
(* calculate_zone_distance and calculate_network_distance                  *)
(***************************************************************************)
ZeroMatrix(n) == [i \in 0..(n - 1) |-> [j \in 0..(n - 1) |-> Zero]]

Pair(a, b) == IF a <= b THEN <<a, b>> ELSE <<b, a>>

NoCalls(n) == [p \in {Pair(a, b) : a, b \in 0..(n - 1)} |-> 0]

\* one iteration of the inner loop, for index labels i and j
DistanceStep(zs, m, acc, i, j) ==
    IF i = j THEN acc
    ELSE IF acc.d[i][j] # Zero THEN acc
    ELSE LET idx1 == zs[i + 1].zone_id
             idx2 == zs[j + 1].zone_id
             v == m[<<idx1, idx2>>]
             d1 == [acc.d EXCEPT ![idx1][idx2] = v]
         IN [d |-> [d1 EXCEPT ![idx2][idx1] = d1[idx1][idx2]],
             c |-> [acc.c EXCEPT ![Pair(idx1, idx2)] = @ + 1]]

\* the matrix, and the count of evaluations of the measure, after the first n
\* iterations of the nested loop
RECURSIVE DistanceLoop(_, _, _)
DistanceLoop(zs, m, n) ==
    IF n = 0 THEN [d |-> ZeroMatrix(Len(zs)), c |-> NoCalls(Len(zs))]
    ELSE DistanceStep(zs, m, DistanceLoop(zs, m, n - 1),
                      (n - 1) \div Len(zs), (n - 1) % Len(zs))

\* m is the haversine distance of the centroids, in km
calculate_zone_distance(zs, m) == DistanceLoop(zs, m, Len(zs) * Len(zs))

\* m is the A* path length between the nearest road nodes, in km
calculate_network_distance(zs, m) == DistanceLoop(zs, m, Len(zs) * Len(zs))

(***************************************************************************)
(* divide_into_zones                                                       *)
(***************************************************************************)
x_step(bb, c) == FDiv(FSub(bb[3], bb[1]), Num(c))
y_step(bb, r) == FDiv(FSub(bb[4], bb[2]), Num(r))

\* the ids collide when the row count is used as the stride
zone_id_by_rows(i, j, r, c) == i * r + j

zone_id(i, j, r, c) == i * c + j

Zone(bb, r, c, i, j) ==
    LET x1 == FAdd(bb[1], FMul(Num(j), x_step(bb, c)))
        y1 == FAdd(bb[2], FMul(Num(i), y_step(bb, r)))
    IN [zone_id |-> zone_id(i, j, r, c),
        geometry |-> <<x1, y1, FAdd(x1, x_step(bb, c)), FAdd(y1, y_step(bb, r))>>]

\* the zones the inner loop appends for row i in its first n iterations
RECURSIVE ZoneRow(_, _, _, _, _)
ZoneRow(bb, r, c, i, n) ==
    IF n <= 0 THEN <<>>
    ELSE Append(ZoneRow(bb, r, c, i, n - 1), Zone(bb, r, c, i, n - 1))

\* the list after the first n iterations of the outer loop
RECURSIVE ZoneRows(_, _, _, _)
ZoneRows(bb, r, c, n) ==
    IF n <= 0 THEN <<>>
    ELSE ZoneRows(bb, r, c, n - 1) \o ZoneRow(bb, r, c, n - 1, c)

divide_into_zones(bb, r, c) == ZoneRows(bb, r, c, r)

(***************************************************************************)
(* populate_zone_attributes                                                *)
(***************************************************************************)
\* city[z] describes what the city holds inside zone z:
\*   nodes     - some road node intersects the zone
\*   buildings - the 'building' tags of the clipped buildings
\*   landuse   - the clipped land-use polygons: type and the fraction of the
\*               zone's area the polygon covers
\*   pois      - the number of clipped POIs that carry an amenity tag
\*   clip      - "ok", or "raises" when clipping to the zone raises
GeometryArea(g) == FMul(FSub(g[3], g[1]), FSub(g[4], g[2]))

RECURSIVE PopulationOf(_, _)
PopulationOf(buildings, k) ==
    IF k = 0 THEN 0
    ELSE PopulationOf(buildings, k - 1) +
         (IF buildings[k] \in DOMAIN BUILDING_OCCUPANCY
          THEN BUILDING_OCCUPANCY[buildings[k]] ELSE 0)

\* area_by_type[type] after the first k land-use polygons
RECURSIVE AreaOfType(_, _, _, _)
AreaOfType(landuse, total_area, type, k) ==
    IF k = 0 THEN Zero
    ELSE LET prev == AreaOfType(landuse, total_area, type, k - 1)
         IN IF landuse[k].landuse = type
            THEN FAdd(prev, FMul(landuse[k].share, total_area))
            ELSE prev

\* the road-node test answers yes for every zone
HasNodesAlways(cty, z) == TRUE

HasNodes(cty, z) == cty[z].nodes

\* a clip of the city's layers to zone z raises inside the geometry library;
\* the clips are reached only for a zone that has road nodes
ClipFails(cty, z) == HasNodes(cty, z) /\ cty[z].clip = "raises"

ClipRaises(cty, zs) == \E k \in 1..Len(zs) : ClipFails(cty, zs[k].zone_id)

\* v / total_area * 100.0 on Python floats raises for a zone of area zero
PopulateRaises(cty, zs) ==
    \E k \in 1..Len(zs) :
        /\ HasNodes(cty, zs[k].zone_id)
        /\ IsZero(GeometryArea(zs[k].geometry))

zone_population(cty, zs) ==
    [z \in ZoneIds(zs) |->
        IF ~HasNodes(cty, z) THEN 0
        ELSE PopulationOf(cty[z].buildings, Len(cty[z].buildings))]

zone_land(cty, zs) ==
    [z \in ZoneIds(zs) |->
        IF ~HasNodes(cty, z) THEN [l \in Landuse |-> Zero]
        ELSE LET geom == (CHOOSE k \in 1..Len(zs) : zs[k].zone_id = z)
                 total_area == GeometryArea(zs[geom].geometry)
             IN [l \in Landuse |->
                    FMul(FDiv(AreaOfType(cty[z].landuse, total_area, l,
                                         Len(cty[z].landuse)),
                              total_area),
                         Num(100))]]

zone_pois(cty, zs) ==
    [z \in ZoneIds(zs) |-> IF ~HasNodes(cty, z) THEN 0 ELSE cty[z].pois]

(***************************************************************************)
(* calculate_zone_attraction and calculate_zone_production                 *)
(***************************************************************************)
\* Series.max() of an integer column
SeriesMax(col) == CHOOSE m \in {col[z] : z \in DOMAIN col} :
                      \A z \in DOMAIN col : col[z] <= m

\* value / maximum * 100.0, the maximum being a numpy integer: 0 / 0 is nan
Score(value, maximum) == FMul(FDiv(Num(value), Num(maximum)), Num(100))

LanduseOrder == <<"commercial", "retail", "industrial", "residential">>

RECURSIVE landuse_score(_, _, _)
landuse_score(area_by_type, t, k) ==
    IF k = 0 THEN Zero
    ELSE FAdd(landuse_score(area_by_type, t, k - 1),
              FMul(area_by_type[LanduseOrder[k]], LAND_WEIGHTS[LanduseOrder[k]][t]))

zone_attraction(zs, popn, lnd, ps) ==
    [z \in ZoneIds(zs) |-> [t \in TimePeriod |->
        FAdd(FAdd(FMul(SCORE_POIS_WEIGHT, Score(ps[z], SeriesMax(ps))),
                  FMul(SCORE_POPN_WEIGHT, Score(popn[z], SeriesMax(popn)))),
             FMul(SCORE_LAND_WEIGHT, landuse_score(lnd[z], t, Len(LanduseOrder))))]]

\* the scores are weighted by the trips of the period
zone_production_by_period(zs, popn, ps) ==
    [z \in ZoneIds(zs) |-> [t \in TimePeriod |->
        FMul(FAdd(Score(popn[z], SeriesMax(popn)), Score(ps[z], SeriesMax(ps))),
             TRIPS_GENERATED[t])]]

zone_production(zs, popn, ps) ==
    [z \in ZoneIds(zs) |-> [t \in TimePeriod |->
        FAdd(Score(popn[z], SeriesMax(popn)), Score(ps[z], SeriesMax(ps)))]]

(***************************************************************************)
(* load_db                                                                 *)
(***************************************************************************)
\* max(d.values()) as Python computes it: the first value is kept until a
\* later one compares greater
RECURSIVE PyMax(_, _)
PyMax(d, k) ==
    IF k = 1 THEN d[1]
    ELSE LET prev == PyMax(d, k - 1) IN IF FLt(prev, d[k]) THEN d[k] ELSE prev

ZoneRowsOf(zs) ==
    {<<k - 1, zs[k].geometry>> : k \in 1..Len(zs)}

DemandRowsOf(zs, dist, dm) ==
    {<<idx1, idx2, dist[idx1][idx2], PyMax(dm[idx1][idx2], EVENING),
       dm[idx1][idx2]>> : idx1, idx2 \in 0..(Len(zs) - 1)}

(***************************************************************************)
(* Bounds and inputs.                                                      *)
(***************************************************************************)
MaxRows == 2
MaxCols == 2
MaxZones == 4
MaxExtent == 3
MaxOrigins == 3

Box(x_min, y_min, w, h) == <<Num(x_min), Num(y_min), Num(x_min + w), Num(y_min + h)>>

\* a zone table of n zones, as divide_into_zones builds it
TableOf(n) == divide_into_zones(Box(0, 0, n, 1), 1, n)

OrderedPairs(n) == (0..(n - 1)) \X (0..(n - 1))

\* distances in km whose square root is exact
DistanceValues == {1, 4, 9}

UniformMeasure(n, v) == [p \in OrderedPairs(n) |-> Num(v)]
LineMeasure(n) == [p \in OrderedPairs(n) |-> Num((p[1] - p[2]) * (p[1] - p[2]))]
\* one-way streets: the path from a to b is not the path from b to a
OneWayMeasure(n, v, w) == [p \in OrderedPairs(n) |-> IF p[1] < p[2] THEN Num(v) ELSE Num(w)]
\* the centroids of zones a and b snap to the same road node
SnapMeasure(n, a, b) == [p \in OrderedPairs(n) |-> IF Pair(p[1], p[2]) = <<a, b>> THEN Zero ELSE Num(1)]

\* haversine is symmetric, and positive between the distinct centroids of a grid
HaversineMeasures(n) == {UniformMeasure(n, v) : v \in DistanceValues} \cup {LineMeasure(n)}

NetworkMeasures(n) ==
    HaversineMeasures(n)
    \cup {OneWayMeasure(n, v, w) : v, w \in DistanceValues}
    \cup {SnapMeasure(n, p[1], p[2]) : p \in {q \in OrderedPairs(n) : q[1] < q[2]}}

SolverMeasures(n) ==
    {UniformMeasure(n, 1), LineMeasure(n), OneWayMeasure(n, 1, 4), SnapMeasure(n, 0, 1)}

PipelineMeasures(n) == {UniformMeasure(n, 1), LineMeasure(n)}

AttractionInputs(z) ==
    {[t \in TimePeriod |-> Zero],
     [t \in TimePeriod |-> Num(10 * (z + 1))],
     [t \in TimePeriod |-> IF t = AM_RUSH THEN Zero ELSE Num(10 * (z + 1))]}

AttractionTables(n) ==
    {a \in [0..(n - 1) -> UNION {AttractionInputs(z) : z \in 0..(n - 1)}] :
        \A z \in 0..(n - 1) : a[z] \in AttractionInputs(z)}

ProductionTables(n) ==
    {[z \in 0..(n - 1) |-> [t \in TimePeriod |-> Num(25)]],
     [z \in 0..(n - 1) |-> [t \in TimePeriod |-> Num((z + 1) * t)]],
     [z \in 0..(n - 1) |-> [t \in TimePeriod |-> IF z = 0 THEN Zero ELSE Num(25)]],
     [z \in 0..(n - 1) |-> [t \in TimePeriod |-> Zero]]}

\* a zone without road nodes that nevertheless holds features, a residential
\* zone and a commercial zone
ZoneContents ==
    {[nodes |-> FALSE, buildings |-> <<"house">>,
      landuse |-> <<[landuse |-> "residential", share |-> Dec(5, -1)]>>,
      pois |-> 1, clip |-> "ok"],
     [nodes |-> TRUE, buildings |-> <<"apartments">>,
      landuse |-> <<[landuse |-> "residential", share |-> Dec(5, -1)]>>,
      pois |-> 1, clip |-> "ok"],
     [nodes |-> TRUE, buildings |-> <<"hotel">>,
      landuse |-> <<[landuse |-> "commercial", share |-> Dec(25, -2)],
                    [landuse |-> "retail", share |-> Dec(25, -2)]>>,
      pois |-> 2, clip |-> "ok"],
     [nodes |-> TRUE, buildings |-> <<>>, landuse |-> <<>>, pois |-> 0,
      clip |-> "ok"]}

EmptyDb == [zone |-> {}, demand |-> {}]

(***************************************************************************)
(* The stages of run_gravity_model.                                        *)
(***************************************************************************)
\* gpd.GeoDataFrame([], crs=...) of an empty zone list has no geometry column:
\* a geopandas that refuses a CRS without geometry raises ValueError, any
\* other returns a table without columns
DivideIntoZones ==
    /\ pc = "divide"
    /\ \/ /\ zones' = divide_into_zones(bbox, num_rows, num_cols)
          /\ pc' = "populate"
          /\ UNCHANGED raised
       \/ /\ divide_into_zones(bbox, num_rows, num_cols) = <<>>
          /\ raised' = "ValueError"
          /\ pc' = "failed"
          /\ UNCHANGED zones
    /\ UNCHANGED <<solved, pending, figure, main>>
    /\ UNCHANGED <<num_rows, num_cols, bbox, city, population, land,
                   pois, attraction, production, kind, measure, calls,
                   distances, demand_matrix, db>>

\* the exception populate_zone_attributes ends with, or "none": the zone loop
\* stops at the first zone whose clip or whose share computation raises, and
\* zones['zone_id'] of a table without columns raises after an empty loop
PopulateError(cty, zs) ==
    IF Len(zs) = 0 THEN "KeyError"
    ELSE IF ~(ClipRaises(cty, zs) \/ PopulateRaises(cty, zs)) THEN "none"
    ELSE LET bad(k) == \/ ClipFails(cty, zs[k].zone_id)
                       \/ /\ HasNodes(cty, zs[k].zone_id)
                          /\ IsZero(GeometryArea(zs[k].geometry))
             first == CHOOSE k \in 1..Len(zs) :
                          bad(k) /\ \A h \in 1..(k - 1) : ~bad(h)
         IN IF ClipFails(cty, zs[first].zone_id)
            THEN "GEOSException" ELSE "ZeroDivisionError"

PopulateZoneAttributes ==
    /\ pc = "populate"
    /\ IF PopulateError(city, zones) # "none"
       THEN /\ raised' = PopulateError(city, zones)
            /\ pc' = "failed"
            /\ UNCHANGED <<population, land, pois>>
       ELSE /\ population' = zone_population(city, zones)
            /\ land' = zone_land(city, zones)
            /\ pois' = zone_pois(city, zones)
            /\ pc' = "attraction"
            /\ UNCHANGED raised
    /\ UNCHANGED <<solved, pending, figure, main>>
    /\ UNCHANGED <<num_rows, num_cols, bbox, city, zones, attraction,
                   production, kind, measure, calls, distances,
                   demand_matrix, db>>

CalculateZoneAttraction ==
    /\ pc = "attraction"
    /\ attraction' = zone_attraction(zones, population, land, pois)
    /\ pc' = "production"
    /\ UNCHANGED <<solved, pending, figure, main>>
    /\ UNCHANGED <<raised, num_rows, num_cols, bbox, city, zones, population,
                   land, pois, production, kind, measure, calls, distances,
                   demand_matrix, db>>

CalculateZoneProduction ==
    /\ pc = "production"
    /\ production' = zone_production(zones, population, pois)
    /\ pc' = "normalize"
    /\ UNCHANGED <<solved, pending, figure, main>>
    /\ UNCHANGED <<raised, num_rows, num_cols, bbox, city, zones, population,
                   land, pois, attraction, kind, measure, calls, distances,
                   demand_matrix, db>>

\* the dicts are updated in place, period by period, up to the period whose
\* assert fails
\* the run goes on to the distances with the scores as they were scored
NormalizeSkipped ==
    /\ pc = "normalize"
    /\ pc' = "distance"
    /\ UNCHANGED <<solved, pending, figure, main>>
    /\ UNCHANGED <<raised, num_rows, num_cols, bbox, city, zones, population,
                   land, pois, attraction, production, kind, measure, calls,
                   distances, demand_matrix, db>>

NormalizeZoneProductionAndAttraction ==
    /\ pc = "normalize"
    /\ LET p == Rescaled(zones, production)
           a == Rescaled(zones, attraction)
           failing == {t \in TimePeriod :
                          ~Close(SeriesSum(zones, p, t, Len(zones)),
                                 SeriesSum(zones, a, t, Len(zones)))}
           done(t) == \A f \in failing : t <= f
       IN /\ production' = [z \in ZoneIds(zones) |-> [t \in TimePeriod |->
                               IF done(t) THEN p[z][t] ELSE production[z][t]]]
          /\ attraction' = [z \in ZoneIds(zones) |-> [t \in TimePeriod |->
                               IF done(t) THEN a[z][t] ELSE attraction[z][t]]]
    /\ IF NormalizeRaises(zones, production, attraction)
       THEN raised' = "AssertionError" /\ pc' = "failed"
       ELSE pc' = "distance" /\ UNCHANGED raised
    /\ UNCHANGED <<solved, pending, figure, main>>
    /\ UNCHANGED <<num_rows, num_cols, bbox, city, zones, population, land,
                   pois, kind, measure, calls, distances, demand_matrix, db>>

CalculateZoneDistance ==
    /\ pc = "distance"
    /\ distances' = calculate_zone_distance(zones, measure).d
    /\ calls' = calculate_zone_distance(zones, measure).c
    /\ pc' = "solve"
    /\ UNCHANGED <<solved, pending, figure, main>>
    /\ UNCHANGED <<raised, num_rows, num_cols, bbox, city, zones, population,
                   land, pois, attraction, production, kind, measure,
                   demand_matrix, db>>

\* the alternative builder; run_gravity_model does not call it
CalculateNetworkDistance ==
    /\ pc = "network"
    /\ distances' = calculate_network_distance(zones, measure).d
    /\ calls' = calculate_network_distance(zones, measure).c
    /\ pc' = "solve"
    /\ UNCHANGED <<solved, pending, figure, main>>
    /\ UNCHANGED <<raised, num_rows, num_cols, bbox, city, zones, population,
                   land, pois, attraction, production, kind, measure,
                   demand_matrix, db>>

\* the solver uses up the production it distributes
GravityModelDemandMatrixInPlace ==
    /\ pc = "solve"
    /\ IF SolverRaises(zones, attraction, distances, kind)
       THEN /\ raised' = "ZeroDivisionError"
            /\ pc' = "failed"
            /\ UNCHANGED <<demand_matrix, production>>
       ELSE /\ demand_matrix' =
                   gravity_model_demand_matrix(zones, production, attraction, distances)
            /\ production' = [z \in ZoneIds(zones) |-> [t \in TimePeriod |-> Zero]]
            /\ pc' = "visualize"
            /\ UNCHANGED raised
    /\ UNCHANGED <<solved, pending, figure, main>>
    /\ UNCHANGED <<num_rows, num_cols, bbox, city, zones, population, land,
                   pois, attraction, kind, measure, calls, distances, db>>

GravityModelDemandMatrix ==
    /\ pc = "solve"
    /\ IF SolverRaises(zones, attraction, distances, kind)
       THEN /\ raised' = "ZeroDivisionError"
            /\ pc' = "failed"
            /\ UNCHANGED demand_matrix
       ELSE /\ demand_matrix' =
                   gravity_model_demand_matrix(zones, production, attraction, distances)
            /\ pc' = "visualize"
            /\ UNCHANGED raised
    /\ UNCHANGED <<solved, pending, figure, main>>
    /\ UNCHANGED <<num_rows, num_cols, bbox, city, zones, population, land,
                   pois, attraction, production, kind, measure, calls,
                   distances, db>>

\* the call stands outside any try: an exception of visualize_demand ends
\* the run
VisualizeDemandUncaught ==
    /\ pc = "visualize"
    /\ \/ figure' = "saved" /\ pc' = "load_db" /\ UNCHANGED raised
       \/ figure' = "error" /\ pc' = "failed" /\ raised' = "Exception"
    /\ UNCHANGED <<solved, pending, main>>
    /\ UNCHANGED <<num_rows, num_cols, bbox, city, zones, population,
                   land, pois, attraction, production, kind, measure, calls,
                   distances, demand_matrix, db>>

\* visualize_demand only reads its arguments; it either saves the figure or
\* raises somewhere in the plotting or file code, and an exception is caught
\* and printed by run_gravity_model
VisualizeDemand ==
    /\ pc = "visualize"
    /\ figure' \in {"saved", "error"}
    /\ pc' = "load_db"
    /\ UNCHANGED <<solved, pending, main>>
    /\ UNCHANGED <<raised, num_rows, num_cols, bbox, city, zones, population,
                   land, pois, attraction, production, kind, measure, calls,
                   distances, demand_matrix, db>>

LoadDb ==
    /\ pc = "load_db"
    /\ db' = [zone |-> ZoneRowsOf(zones),
              demand |-> DemandRowsOf(zones, distances, demand_matrix)]
    /\ pc' = "done"
    /\ UNCHANGED <<solved, pending, figure, main>>
    /\ UNCHANGED <<raised, num_rows, num_cols, bbox, city, zones, population,
                   land, pois, attraction, production, kind, measure, calls,
                   distances, demand_matrix>>

(***************************************************************************)
(* run_gravity_model on a city.                                            *)
(***************************************************************************)
\* len(zones) after range(num_rows) x range(num_cols)
ZoneCount(r, c) == IF r > 0 /\ c > 0 THEN r * c ELSE 0

\* The extent is the bounding box of the road nodes, so every node lies in
\* some zone of a grid over it.  The extent without area is a single
\* meridian of nodes; it is run with one column, where the zone centroids
\* stay apart.
Init ==
    /\ pc = "divide"
    /\ raised = "none"
    /\ num_rows \in (-1)..MaxRows
    /\ num_cols \in (-1)..MaxCols
    /\ ZoneCount(num_rows, num_cols) <= MaxZones
    /\ bbox \in {Box(0, 0, 2, 2), Box(0, 0, 0, 2)}
    /\ IsZero(GeometryArea(bbox)) => num_cols <= 1
    /\ city \in [0..(ZoneCount(num_rows, num_cols) - 1) -> ZoneContents]
    /\ ZoneCount(num_rows, num_cols) > 0 => \E z \in DOMAIN city : city[z].nodes
    /\ measure \in PipelineMeasures(ZoneCount(num_rows, num_cols))
    /\ kind = "np"
    /\ zones = Unset
    /\ population = Unset
    /\ land = Unset
    /\ pois = Unset
    /\ attraction = Unset
    /\ production = Unset
    /\ calls = Unset
    /\ distances = Unset
    /\ demand_matrix = Unset
    /\ db = EmptyDb
    /\ solved = Unset
    /\ pending = Unset
    /\ figure = "none"
    /\ main = Unset

Next ==
    \/ DivideIntoZones
    \/ PopulateZoneAttributes
    \/ CalculateZoneAttraction
    \/ CalculateZoneProduction
    \/ NormalizeZoneProductionAndAttraction
    \/ CalculateZoneDistance
    \/ GravityModelDemandMatrix
    \/ VisualizeDemand
    \/ LoadDb

Spec == Init /\ [][Next]_vars

(***************************************************************************)
(* gravity_model_demand_matrix on bounded zone tables and distances.       *)
(***************************************************************************)
SolverInit ==
    /\ pc = "solve"
    /\ raised = "none"
    /\ \E n \in 1..MaxZones :
          /\ zones = TableOf(n)
          /\ attraction \in AttractionTables(n)
          /\ production \in ProductionTables(n)
          /\ measure \in SolverMeasures(n)
    /\ distances = calculate_network_distance(zones, measure).d
    /\ calls = calculate_network_distance(zones, measure).c
    /\ kind \in {"np", "py"}
    /\ num_rows = 1
    /\ num_cols = Len(zones)
    /\ bbox = Unset
    /\ city = Unset
    /\ population = Unset
    /\ land = Unset
    /\ pois = Unset
    /\ demand_matrix = Unset
    /\ db = EmptyDb
    /\ solved = Unset
    /\ pending = Unset
    /\ figure = "none"
    /\ main = Unset

SolverNext == GravityModelDemandMatrix

SolverSpec == SolverInit /\ [][SolverNext]_vars

(***************************************************************************)
(* normalize_zone_production_and_attraction on bounded score tables.       *)
(***************************************************************************)
NormInit ==
    /\ pc = "normalize"
    /\ raised = "none"
    /\ \E n \in 1..MaxZones :
          /\ zones = TableOf(n)
          /\ attraction \in AttractionTables(n)
          /\ production \in ProductionTables(n)
    /\ kind = "np"
    /\ num_rows = 1
    /\ num_cols = Len(zones)
    /\ bbox = Unset
    /\ city = Unset
    /\ population = Unset
    /\ land = Unset
    /\ pois = Unset
    /\ measure = Unset
    /\ calls = Unset
    /\ distances = Unset
    /\ demand_matrix = Unset
    /\ db = EmptyDb
    /\ solved = Unset
    /\ pending = Unset
    /\ figure = "none"
    /\ main = Unset

NormNext == NormalizeZoneProductionAndAttraction

NormSpec == NormInit /\ [][NormNext]_vars

(***************************************************************************)
(* The two distance builders on bounded zone tables and pair measures.     *)
(***************************************************************************)
DistInit ==
    /\ pc \in {"distance", "network"}
    /\ raised = "none"
    /\ \E n \in 1..MaxZones :
          /\ zones = TableOf(n)
          /\ measure \in IF pc = "distance" THEN HaversineMeasures(n)
                         ELSE NetworkMeasures(n)
    /\ kind = "np"
    /\ num_rows = 1
    /\ num_cols = Len(zones)
    /\ bbox = Unset
    /\ city = Unset
    /\ population = Unset
    /\ land = Unset
    /\ pois = Unset
    /\ attraction = Unset
    /\ production = Unset
    /\ calls = Unset
    /\ distances = Unset
    /\ demand_matrix = Unset
    /\ db = EmptyDb
    /\ solved = Unset
    /\ pending = Unset
    /\ figure = "none"
    /\ main = Unset

DistNext == CalculateZoneDistance \/ CalculateNetworkDistance

DistSpec == DistInit /\ [][DistNext]_vars

(***************************************************************************)
(* divide_into_zones on bounded extents and grids.                         *)
(***************************************************************************)
ZoneInit ==
    /\ pc = "divide"
    /\ raised = "none"
    /\ num_rows \in 1..(MaxRows + 1)
    /\ num_cols \in 1..(MaxCols + 1)
    /\ \E x \in {0, 1}, w, h \in 1..MaxExtent : bbox = Box(x, 5, w, h)
    /\ kind = "np"
    /\ city = Unset
    /\ zones = Unset
    /\ population = Unset
    /\ land = Unset
    /\ pois = Unset
    /\ attraction = Unset
    /\ production = Unset
    /\ measure = Unset
    /\ calls = Unset
    /\ distances = Unset
    /\ demand_matrix = Unset
    /\ db = EmptyDb
    /\ solved = Unset
    /\ pending = Unset
    /\ figure = "none"
    /\ main = Unset

ZoneNext == DivideIntoZones

ZoneSpec == ZoneInit /\ [][ZoneNext]_vars

(***************************************************************************)
(* Properties.                                                             *)
(***************************************************************************)
Ids == ZoneIds(zones)

RECURSIVE SetSum(_, _)
SetSum(S, f) ==
    IF S = {} THEN Zero
    ELSE LET x == CHOOSE y \in S : TRUE IN FAdd(f[x], SetSum(S \ {x}, f))

\* the solver has returned a matrix
SolverReturned == pc \in {"visualize", "load_db", "done"}

\* sum over the destinations j # i of demand[i][j][t]
RowSum(i, t) == SetSum(Ids \ {i}, [j \in Ids \ {i} |-> demand_matrix[i][j][t]])

\* d(i,j)^(-beta) and denom(i) of the gravity equation
Decay(i, j) == FDiv(Num(1), Pow(distances[i][j], GRAVITY_BETA))
Denom(i, t) == SetSum(Ids \ {i}, [k \in Ids \ {i} |-> FMul(attraction[k][t], Decay(i, k))])

\* sum over the zones of a score column in period t
ColumnSum(col, t) == SetSum(Ids, [z \in Ids |-> col[z][t]])

\* C1: after the solver returns, every origin's demand row sums to the
\* origin's production, in every period (within 1e-6)
C1_RowSumsEqualProduction ==
    SolverReturned =>
        \A i \in Ids : \A t \in TimePeriod : Close(RowSum(i, t), production[i][t])

\* C2: every off-diagonal entry the solver returns equals the closed form
\* production[i][t] * attraction[j][t] * d(i,j)^(-beta) / denom(i), wherever
\* denom(i) is not zero
C2_ClosedForm ==
    SolverReturned =>
        \A i, j \in Ids : \A t \in TimePeriod :
            (i # j /\ ~IsZero(Denom(i, t))) =>
                demand_matrix[i][j][t] =
                    FDiv(FMul(FMul(production[i][t], attraction[j][t]), Decay(i, j)),
                         Denom(i, t))

\* the solver returned for the 2x2 example of the specification: attraction
\* 10, 20, 30, 40, production 25 each, distances 1, 4, 9 along a line, and
\* demand 25 * 20 / (20 + 30/2 + 40/3) from zone 0 to zone 1
C2_Witness ==
    /\ pc = "visualize"
    /\ Len(zones) = 4
    /\ \A z \in Ids : attraction[z][MORNING] = Num(10 * (z + 1))
    /\ \A z \in Ids : production[z][MORNING] = Num(25)
    /\ measure = LineMeasure(4)
    /\ demand_matrix[0][1][MORNING] = FDiv(Num(300), Num(29))

\* C3: the solver returns a matrix only if no origin has a zero denominator
\* in any period; a zero denominator is reported as a failure
C3_ZeroDenominatorReported ==
    SolverReturned =>
        \A i \in Ids : \A t \in TimePeriod : ~IsZero(Denom(i, t))

\* C4: when the balancer returns normally, production and attraction both
\* sum to TRIPS_GENERATED[t] in every period (within 1e-6)
C4_BalancedToTarget ==
    pc = "distance" =>
        \A t \in TimePeriod :
            /\ Close(ColumnSum(production, t), TRIPS_GENERATED[t])
            /\ Close(ColumnSum(attraction, t), TRIPS_GENERATED[t])

\* C5: a call of the balancer on scores whose total production or total
\* attraction is zero in some period ends in a failure
C5_ZeroTotalAborts ==
    [][(/\ pc = "normalize"
        /\ \E t \in TimePeriod :
              \/ IsZero(ColumnSum(production, t))
              \/ IsZero(ColumnSum(attraction, t)))
       => pc' = "failed"]_vars

\* C6: load_db is reached only with a matrix whose entries are all numbers,
\* whose scores are balanced to TRIPS_GENERATED and whose rows sum to the
\* origins' production
C6_PersistOnlyValid ==
    pc \in {"load_db", "done"} =>
        /\ \A i, j \in Ids : \A t \in TimePeriod : IsFinite(demand_matrix[i][j][t])
        /\ \A t \in TimePeriod :
              /\ Close(ColumnSum(production, t), TRIPS_GENERATED[t])
              /\ Close(ColumnSum(attraction, t), TRIPS_GENERATED[t])
        /\ \A i \in Ids : \A t \in TimePeriod : Close(RowSum(i, t), production[i][t])

\* C7: every distance between distinct zones that the solver raised to the
\* power -beta was positive, so that the impedance is finite
C7_DistanceFloored ==
    pc \in {"visualize", "failed"} =>
        \A i, j \in Ids : i # j => IsFinite(Decay(i, j))

\* the distance matrix is symmetric
Symmetric == \A i, j \in Ids : distances[i][j] = distances[j][i]

\* C8: the matrix a distance builder returns is symmetric, each unordered
\* pair of distinct zones having been computed exactly once
C8_SymmetricComputedOnce ==
    pc = "solve" =>
        /\ Symmetric
        /\ \A i, j \in Ids : i < j => calls[<<i, j>>] = 1

\* C9: every entry of the matrix the solver returns is non-negative
C9_NonNegative ==
    SolverReturned =>
        \A i, j \in Ids : \A t \in TimePeriod : FLe(Zero, demand_matrix[i][j][t])

\* C10: divide_into_zones returns num_rows * num_cols zones in row-major
\* order, the zone of row i and column j having id i * num_cols + j and
\* being the cell [x_min + j*W/c, x_min + (j+1)*W/c] x
\* [y_min + i*H/r, y_min + (i+1)*H/r] of the regular grid over the box
GridLine(lo, hi, k, n) == FAdd(lo, FDiv(FMul(Num(k), FSub(hi, lo)), Num(n)))

C10_GridPartition ==
    pc = "populate" =>
        /\ Len(zones) = num_rows * num_cols
        /\ \A k \in 1..Len(zones) : zones[k].zone_id = k - 1
        /\ \A i \in 0..(num_rows - 1) : \A j \in 0..(num_cols - 1) :
              LET z == zones[i * num_cols + j + 1]
              IN /\ z.zone_id = i * num_cols + j
                 /\ z.geometry = <<GridLine(bbox[1], bbox[3], j, num_cols),
                                   GridLine(bbox[2], bbox[4], i, num_rows),
                                   GridLine(bbox[1], bbox[3], j + 1, num_cols),
                                   GridLine(bbox[2], bbox[4], i + 1, num_rows)>>
                 /\ FSub(z.geometry[3], z.geometry[1]) =
                        FDiv(FSub(bbox[3], bbox[1]), Num(num_cols))
                 /\ FSub(z.geometry[4], z.geometry[2]) =
                        FDiv(FSub(bbox[4], bbox[2]), Num(num_rows))

\* a 2 x 3 grid has been laid over a box of width 2 and height 3
C10_Witness ==
    /\ pc = "populate"
    /\ num_rows = 2
    /\ num_cols = 3
    /\ bbox = Box(1, 5, 2, 3)
    /\ Len(zones) = 6
    /\ zones[6].zone_id = 5
    /\ zones[6].geometry[1] = FAdd(Num(1), FDiv(Num(4), Num(3)))

(***************************************************************************)
(* Failure handling of the stages.                                         *)
(***************************************************************************)
BadConfiguration ==
    num_rows <= 0 \/ num_cols <= 0 \/ IsZero(GeometryArea(bbox))

\* C11: with a non-positive num_rows or num_cols, or an extent without area,
\* the run ends at divide_into_zones: no zone table is ever returned and no
\* later stage is entered
C11_ConfigurationRejected ==
    BadConfiguration => (pc \in {"divide", "failed"} /\ zones = Unset)

(***************************************************************************)
(* populate_zone_attributes on a zone table and a city.                    *)
(***************************************************************************)
\* besides the contents of the pipeline: a zone whose clip raises, a zone
\* without road nodes whose clip would raise, and a zone covered by two
\* land-use polygons that overlap each other
PopContents ==
    ZoneContents \cup
    {[nodes |-> TRUE, buildings |-> <<"house">>,
      landuse |-> <<[landuse |-> "residential", share |-> Dec(5, -1)]>>,
      pois |-> 1, clip |-> "raises"],
     [nodes |-> FALSE, buildings |-> <<"apartments", "hotel">>,
      landuse |-> <<[landuse |-> "industrial", share |-> Num(1)]>>,
      pois |-> 3, clip |-> "raises"],
     [nodes |-> TRUE, buildings |-> <<"residential">>,
      landuse |-> <<[landuse |-> "residential", share |-> Dec(75, -2)],
                    [landuse |-> "commercial", share |-> Dec(75, -2)]>>,
      pois |-> 0, clip |-> "ok"]}

PopInit ==
    /\ pc = "populate"
    /\ raised = "none"
    /\ num_rows = 1
    /\ num_cols \in 1..MaxZones
    /\ bbox \in {Box(0, 0, num_cols, 1), Box(0, 0, num_cols, 0)}
    /\ IsZero(GeometryArea(bbox)) => num_cols <= 2
    /\ zones = divide_into_zones(bbox, num_rows, num_cols)
    /\ city \in [0..(num_cols - 1) -> PopContents]
    /\ population = Unset
    /\ land = Unset
    /\ pois = Unset
    /\ attraction = Unset
    /\ production = Unset
    /\ kind = "np"
    /\ measure = Unset
    /\ calls = Unset
    /\ distances = Unset
    /\ demand_matrix = Unset
    /\ db = EmptyDb
    /\ solved = Unset
    /\ pending = Unset
    /\ figure = "none"
    /\ main = Unset

PopNext == PopulateZoneAttributes

PopSpec == PopInit /\ [][PopNext]_vars

AllZero(z) ==
    /\ population[z] = 0
    /\ pois[z] = 0
    /\ \A l \in Landuse : land[z][l] = Zero

\* C12: a zone for which clipping raises gets population 0, all shares 0 and
\* POI count 0, and populate_zone_attributes returns the table with the other
\* zones processed
C12_ClipFailureZeroed ==
    (pc # "populate" /\ ~PopulateRaises(city, zones)) =>
        \A z \in DOMAIN city :
            ClipFails(city, z) => (pc = "attraction" /\ AllZero(z))

\* C13: once populate_zone_attributes has returned, every zone that no road
\* node intersects has population 0, all four shares 0 and POI count 0
\* whatever buildings, land use or POIs lie in it, every zone with road nodes
\* has the attributes of its own content, and a run that raised did so for
\* a zone that has road nodes
C13_NoRoadZoneZeroed ==
    /\ pc = "attraction" =>
          \A z \in DOMAIN city :
             /\ ~city[z].nodes => AllZero(z)
             /\ city[z].nodes =>
                   /\ population[z] =
                         PopulationOf(city[z].buildings, Len(city[z].buildings))
                   /\ pois[z] = city[z].pois
    /\ pc = "failed" =>
          \E k \in 1..Len(zones) :
             /\ city[zones[k].zone_id].nodes
             /\ \/ city[zones[k].zone_id].clip = "raises"
                \/ IsZero(GeometryArea(zones[k].geometry))

\* a table was returned in which a zone without road nodes holds buildings,
\* land use and POIs while another zone has been given a population
C13_Witness ==
    /\ pc = "attraction"
    /\ \E z \in DOMAIN city :
          /\ ~city[z].nodes
          /\ city[z].buildings # <<>>
          /\ city[z].landuse # <<>>
          /\ city[z].pois > 0
          /\ population[z] = 0
    /\ \E z \in DOMAIN city : city[z].nodes /\ population[z] > 0

\* the score the claim describes: no contribution when the city-wide maximum
\* is zero
GuardedScore(value, maximum) ==
    IF maximum = 0 THEN Zero ELSE Score(value, maximum)

\* C14: when the largest population or the largest POI count of the city is
\* zero, the scores calculate_zone_attraction and calculate_zone_production
\* assign count that quantity as 0 and are numbers
C14_ZeroMaximumContributesZero ==
    pc = "normalize" =>
        \A z \in DOMAIN population : \A t \in TimePeriod :
            /\ attraction[z][t] =
                  FAdd(FAdd(FMul(SCORE_POIS_WEIGHT,
                                 GuardedScore(pois[z], SeriesMax(pois))),
                            FMul(SCORE_POPN_WEIGHT,
                                 GuardedScore(population[z], SeriesMax(population)))),
                       FMul(SCORE_LAND_WEIGHT,
                            landuse_score(land[z], t, Len(LanduseOrder))))
            /\ production[z][t] =
                  FAdd(GuardedScore(population[z], SeriesMax(population)),
                       GuardedScore(pois[z], SeriesMax(pois)))

(***************************************************************************)
(* Order of the stages of run_gravity_model.                               *)
(***************************************************************************)
Partitioned == zones # <<>>
Aggregated == population # Unset /\ land # Unset /\ pois # Unset
Scored == attraction # Unset /\ production # Unset

\* what normalize_zone_production_and_attraction asserts before it returns
Balanced ==
    /\ Scored
    /\ \A t \in TimePeriod :
          Close(SeriesSum(zones, production, t, Len(zones)),
                SeriesSum(zones, attraction, t, Len(zones)))

\* C15: a stage of run_gravity_model runs only on the finished results of
\* the stages it depends on: aggregation on the zone table, scoring on the
\* aggregated attributes, balancing on both scores, the solver on balanced
\* scores and the complete distance matrix, load_db on the matrix the solver
\* returned
C15_DependencyOrder ==
    /\ Aggregated => Partitioned
    /\ (pc = "attraction" \/ attraction # Unset) => Aggregated
    /\ production # Unset => (Aggregated /\ attraction # Unset)
    /\ pc = "normalize" => Scored
    /\ distances # Unset => Balanced
    /\ (pc = "solve" \/ demand_matrix # Unset) =>
          /\ Balanced
          /\ DOMAIN distances = DOMAIN population
          /\ calls # Unset
    /\ pc \in {"visualize", "load_db", "done"} => demand_matrix # Unset
    /\ db # EmptyDb => (pc = "done" /\ demand_matrix # Unset)

\* a run reached the end and committed the rows of a matrix over four zones
C15_Witness ==
    /\ pc = "done"
    /\ Len(zones) = 4
    /\ Balanced
    /\ DOMAIN demand_matrix = 0..3
    /\ db.demand # {}

(***************************************************************************)
(* Frame and independence properties of the solver and the normalizer.     *)
(***************************************************************************)
\* C16: a call of gravity_model_demand_matrix that returns leaves every
\* zone's production and attraction of every period and every cell of the
\* distance matrix as they were before the call
C16_InputsUnchanged ==
    [][(pc = "solve" /\ pc' = "visualize") =>
          /\ \A z \in Ids : \A t \in TimePeriod :
                /\ production'[z][t] = production[z][t]
                /\ attraction'[z][t] = attraction[z][t]
          /\ \A i, j \in Ids : distances'[i][j] = distances[i][j]
          /\ zones' = zones]_vars

\* the solver returned a matrix with a positive flow, computed from
\* productions that differ between zones and periods
C16_Witness ==
    /\ pc = "visualize"
    /\ kind = "py"
    /\ Len(zones) = 2
    /\ FLt(production[0][MORNING], production[1][MORNING])
    /\ FLt(attraction[0][MORNING], attraction[1][MORNING])
    /\ FLt(Zero, demand_matrix[1][0][EVENING])

\* score tables whose periods differ from each other
PeriodAttractionTables(n) ==
    {[z \in 0..(n - 1) |-> [t \in TimePeriod |-> Num(10 * (z + 1))]],
     [z \in 0..(n - 1) |-> [t \in TimePeriod |->
         IF t = AM_RUSH THEN Zero ELSE Num(10 * (z + 1))]],
     [z \in 0..(n - 1) |-> [t \in TimePeriod |-> Num(z + t)]]}

PeriodProductionTables(n) ==
    {[z \in 0..(n - 1) |-> [t \in TimePeriod |-> Num(25)]],
     [z \in 0..(n - 1) |-> [t \in TimePeriod |-> Num((z + 1) * t)]]}

\* normalize_zone_production_and_attraction, calculate_zone_distance and
\* gravity_model_demand_matrix in sequence on such tables
PeriodInit ==
    /\ pc = "normalize"
    /\ raised = "none"
    /\ \E n \in 1..MaxZones :
          /\ zones = TableOf(n)
          /\ attraction \in PeriodAttractionTables(n)
          /\ production \in PeriodProductionTables(n)
          /\ measure \in PipelineMeasures(n)
    /\ kind \in {"np", "py"}
    /\ num_rows = 1
    /\ num_cols = Len(zones)
    /\ bbox = Unset
    /\ city = Unset
    /\ population = Unset
    /\ land = Unset
    /\ pois = Unset
    /\ calls = Unset
    /\ distances = Unset
    /\ demand_matrix = Unset
    /\ db = EmptyDb
    /\ solved = Unset
    /\ pending = Unset
    /\ figure = "none"
    /\ main = Unset

PeriodNext ==
    \/ NormalizeZoneProductionAndAttraction
    \/ CalculateZoneDistance
    \/ GravityModelDemandMatrix

PeriodSpec == PeriodInit /\ [][PeriodNext]_vars

\* what a second run may hold in the periods other than the one compared
OtherPeriodScores ==
    {[z \in Ids |-> [s \in TimePeriod |-> Zero]],
     [z \in Ids |-> [s \in TimePeriod |-> Num(3 * z + s)]]}

\* the table col with the scores of every period but t replaced by those of f
Variation(col, t, f) ==
    [z \in Ids |-> [s \in TimePeriod |-> IF s = t THEN col[z][s] ELSE f[z][s]]]

\* C17: a returning call of normalize_zone_production_and_attraction or of
\* gravity_model_demand_matrix gives in period t the scores and the demand
\* that every other returning call gives whose inputs agree with it in
\* period t, whatever that call holds in the other periods
C17_PeriodsIndependent ==
    [][\A t \in TimePeriod : \A fp, fa \in OtherPeriodScores :
          LET p2 == Variation(production, t, fp)
              a2 == Variation(attraction, t, fa)
          IN /\ (/\ pc = "normalize"
                 /\ pc' = "distance"
                 /\ ~NormalizeRaises(zones, p2, a2)) =>
                    \A z \in Ids :
                       /\ production'[z][t] = Rescaled(zones, p2)[z][t]
                       /\ attraction'[z][t] = Rescaled(zones, a2)[z][t]
             /\ (/\ pc = "solve"
                 /\ pc' = "visualize"
                 /\ ~SolverRaises(zones, a2, distances, kind)) =>
                    \A i, j \in Ids :
                       demand_matrix'[i][j][t] =
                          gravity_model_demand_matrix(zones, p2, a2,
                                                      distances)[i][j][t]]_vars

\* scores that differ from period to period were balanced and solved
C17_Witness ==
    /\ pc = "visualize"
    /\ Len(zones) = 3
    /\ production[1][MORNING] # production[1][MID_DAY]
    /\ attraction[1][MORNING] # attraction[1][MID_DAY]
    /\ FLt(Zero, demand_matrix[0][1][MID_DAY])
    /\ demand_matrix[0][1][MID_DAY] # demand_matrix[0][1][PM_RUSH]

(***************************************************************************)
(* The per-origin computations of gravity_model_demand_matrix, run in any  *)
(* interleaving: every origin works through the periods in order, one      *)
(* body of the zone1 loop at a time.                                       *)
(***************************************************************************)
\* demand_matrix as line 122 builds it
InitialDemand(zs) ==
    [idx1 \in ZoneIds(zs) |-> [idx2 \in ZoneIds(zs) |-> [t \in TimePeriod |-> Zero]]]

\* the body also stores its numerators in the column of idx1
SolveOriginMirrored(idx1) ==
    LET t == solved[idx1] + 1
        denominator == trips_denominator(zones, attraction, distances, t, idx1,
                                         Len(zones))
    IN /\ pc = "rows"
       /\ t \in TimePeriod
       /\ IF SolverRowRaises(zones, attraction, distances, kind, t, idx1)
          THEN /\ raised' = "ZeroDivisionError"
               /\ pc' = "failed"
               /\ UNCHANGED <<demand_matrix, solved>>
          ELSE /\ demand_matrix' =
                      [i \in Ids |-> [j \in Ids |->
                          IF i = idx1
                          THEN [demand_matrix[i][j] EXCEPT ![t] =
                                   FDiv(IF j = idx1 THEN @
                                        ELSE trips_numerator(production, attraction,
                                                             distances, t, idx1, j),
                                        denominator)]
                          ELSE IF j = idx1
                          THEN [demand_matrix[i][j] EXCEPT ![t] =
                                   trips_numerator(production, attraction,
                                                   distances, t, idx1, i)]
                          ELSE demand_matrix[i][j]]]
               /\ solved' = [solved EXCEPT ![idx1] = t]
               /\ pc' = IF \A i \in Ids : solved'[i] = EVENING
                        THEN "visualize" ELSE "rows"
               /\ UNCHANGED raised
       /\ UNCHANGED <<num_rows, num_cols, bbox, city, zones, population, land,
                      pois, attraction, production, kind, measure, calls,
                      distances, db, pending, figure, main>>

\* lines 127-142 for origin idx1 in its next period: the numerators go into
\* the cells of row idx1, then every cell of the row is divided in place
SolveOrigin(idx1) ==
    LET t == solved[idx1] + 1
        denominator == trips_denominator(zones, attraction, distances, t, idx1,
                                         Len(zones))
    IN /\ pc = "rows"
       /\ t \in TimePeriod
       /\ IF SolverRowRaises(zones, attraction, distances, kind, t, idx1)
          THEN /\ raised' = "ZeroDivisionError"
               /\ pc' = "failed"
               /\ UNCHANGED <<demand_matrix, solved>>
          ELSE /\ demand_matrix' =
                      [demand_matrix EXCEPT ![idx1] =
                          [idx2 \in Ids |->
                              [demand_matrix[idx1][idx2] EXCEPT ![t] =
                                  FDiv(IF idx2 = idx1 THEN @
                                       ELSE trips_numerator(production, attraction,
                                                            distances, t, idx1, idx2),
                                       denominator)]]]
               /\ solved' = [solved EXCEPT ![idx1] = t]
               /\ pc' = IF \A i \in Ids : solved'[i] = EVENING
                        THEN "visualize" ELSE "rows"
               /\ UNCHANGED raised
       /\ UNCHANGED <<num_rows, num_cols, bbox, city, zones, population, land,
                      pois, attraction, production, kind, measure, calls,
                      distances, db, pending, figure, main>>

RowInit ==
    /\ pc = "rows"
    /\ raised = "none"
    /\ \E n \in 1..MaxOrigins :
          /\ zones = TableOf(n)
          /\ attraction \in PeriodAttractionTables(n)
          /\ production \in PeriodProductionTables(n)
          /\ measure = LineMeasure(n)
    /\ distances = calculate_zone_distance(zones, measure).d
    /\ calls = calculate_zone_distance(zones, measure).c
    /\ kind = "np"
    /\ num_rows = 1
    /\ num_cols = Len(zones)
    /\ bbox = Unset
    /\ city = Unset
    /\ population = Unset
    /\ land = Unset
    /\ pois = Unset
    /\ demand_matrix = InitialDemand(zones)
    /\ db = EmptyDb
    /\ solved = [i \in Ids |-> 0]
    /\ pending = Unset
    /\ figure = "none"
    /\ main = Unset

RowNext == \E idx1 \in Ids : SolveOrigin(idx1)

RowSpec == RowInit /\ [][RowNext]_vars

\* C18: at every point of every interleaving of the per-origin computations,
\* row i of the matrix holds the values of the sequential loop in the periods
\* origin i has computed and the initial 0 in all others, so no computation
\* has written a row of another origin; when all have finished the matrix is
\* the one the sequential loop returns, and a computation raises only where
\* the sequential loop raises
C18_RowsIndependent ==
    /\ pc \in {"rows", "visualize"} =>
          \A i, j \in Ids : \A t \in TimePeriod :
             demand_matrix[i][j][t] =
                IF t <= solved[i]
                THEN gravity_model_demand_matrix(zones, production, attraction,
                                                 distances)[i][j][t]
                ELSE Zero
    /\ pc = "visualize" =>
          /\ ~SolverRaises(zones, attraction, distances, kind)
          /\ demand_matrix = gravity_model_demand_matrix(zones, production,
                                                         attraction, distances)
    /\ pc = "failed" => SolverRaises(zones, attraction, distances, kind)

\* the last origin finished before the first one started its last period
C18_Witness ==
    /\ pc = "rows"
    /\ Len(zones) = 3
    /\ solved[2] = EVENING
    /\ solved[1] = MID_DAY
    /\ solved[0] = PM_RUSH
    /\ FLt(Zero, demand_matrix[2][0][EVENING])
    /\ demand_matrix[0][2][EVENING] = Zero

(***************************************************************************)
(* Rows written by load_db and shares computed by the aggregation.         *)
(***************************************************************************)
\* C19: the demand table load_db commits holds exactly one row for every
\* ordered pair of distinct zones, Z * (Z - 1) rows in all, and no row whose
\* origin is its destination
C19_NoSelfPairRows ==
    pc = "done" =>
        /\ Cardinality(db.demand) = Len(zones) * (Len(zones) - 1)
        /\ \A row \in db.demand : row[1] # row[2]
        /\ \A i, j \in Ids :
              i # j => Cardinality({row \in db.demand :
                                       row[1] = i /\ row[2] = j}) = 1

\* sum of the shares of the first k land-use types of zone z
RECURSIVE ShareSum(_, _)
ShareSum(z, k) ==
    IF k = 0 THEN Zero ELSE FAdd(ShareSum(z, k - 1), land[z][LanduseOrder[k]])

\* C20: in the table populate_zone_attributes returns, the four land-use
\* shares of every zone add up to at most 100 percent of the zone's area,
\* also where land-use polygons overlap each other inside the zone
C20_SharesAtMostAll ==
    pc = "attraction" =>
        \A z \in DOMAIN land : FLe(ShareSum(z, Len(LanduseOrder)), Num(100))

(***************************************************************************)
(* Production scores, decay exponent.                                      *)
(***************************************************************************)
\* C21: when calculate_zone_production has returned and the balancing has
\* not yet run, the production of every zone is population / max population
\* * 100 + POI count / max POI count * 100 in each of the five periods; a
\* production that differs between two periods is found only after
\* normalize_zone_production_and_attraction has run
C21_ProductionSameInAllPeriods ==
    /\ pc = "normalize" =>
          \A z \in Ids : \A t \in TimePeriod :
             production[z][t] =
                FAdd(FMul(FDiv(Num(population[z]), Num(SeriesMax(population))),
                          Num(100)),
                     FMul(FDiv(Num(pois[z]), Num(SeriesMax(pois))), Num(100)))
    /\ (/\ production # Unset
        /\ \E z \in Ids : \E t, u \in TimePeriod :
              production[z][t] # production[z][u]) =>
          pc \notin {"divide", "populate", "attraction", "production", "normalize"}

\* production was computed for two zones of different population, both
\* scores being numbers, and is about to be balanced
C21_Witness ==
    /\ pc = "normalize"
    /\ Len(zones) >= 2
    /\ population[0] # population[1]
    /\ \A z \in Ids : IsFinite(production[z][MID_DAY])
    /\ \E z \in Ids : FLt(Zero, production[z][MID_DAY])
    /\ production[0][MID_DAY] # production[1][MID_DAY]

\* the range documented at the definition of GRAVITY_BETA
DecayExponentInRange ==
    FLe(Dec(8, -1), GRAVITY_BETA) /\ FLe(GRAVITY_BETA, Num(2))

\* C22: the decay exponent the solver uses lies between 0.8 and 2.0; with an
\* exponent outside that range no stage of the run computes anything and no
\* demand is ever derived from it
C22_DecayExponentChecked ==
    /\ (pc # "divide" \/ zones # Unset) =>
          (DecayExponentInRange \/ (pc = "failed" /\ raised = "ConfigurationError"))
    /\ demand_matrix # Unset => DecayExponentInRange

(***************************************************************************)
(* A failing visualization.                                                *)
(***************************************************************************)
\* C25: a run in which visualize_demand raised goes on to load_db, and the
\* zone table, the distances and the demand matrix load_db receives and
\* writes are the ones the run held when the solver returned
C25_VisualizationFailureContained ==
    figure = "error" =>
        /\ pc \in {"load_db", "done"}
        /\ raised = "none"
        /\ zones = divide_into_zones(bbox, num_rows, num_cols)
        /\ distances = calculate_zone_distance(zones, measure).d
        /\ demand_matrix =
              gravity_model_demand_matrix(zones, production, attraction, distances)
        /\ pc = "done" =>
              db = [zone |-> ZoneRowsOf(zones),
                    demand |-> DemandRowsOf(zones, distances, demand_matrix)]

\* the figure could not be drawn and the rows of four zones were committed
C25_Witness ==
    /\ figure = "error"
    /\ pc = "done"
    /\ Len(zones) = 4
    /\ Cardinality(db.zone) = 4
    /\ \E row \in db.demand : row[1] = 0 /\ row[2] = 3 /\ FLt(Zero, row[4])

(***************************************************************************)
(* populate_db.main: the four stages on the connection of one city.        *)
(***************************************************************************)
CITY_MAP == {"toronto", "sanfrancisco", "austin", "vancover", "singapore",
             "newyorkcity", "london", "amsterdam", "berlin", "madrid"}

\* the parameters of run_gravity_model
Parameters == {"city_file", "nodes_file", "edges_file", "num_rows", "num_cols",
               "conn"}

\* the keywords add_travel_demand_gravity_model passes
Keywords == {"city_name", "city_file", "nodes_file", "edges_file", "num_rows",
             "num_cols", "conn"}

\* Python binds a call only if every keyword names a parameter and every
\* parameter without default gets a value
Binds(keywords, parameters) == keywords = parameters

\* rows an earlier run committed: none, or the zones and the demand of a
\* k x 1 grid over another extent
OldDb(k) ==
    LET old == divide_into_zones(Box(0, 0, 2, 2), k, 1)
    IN [zone |-> ZoneRowsOf(old),
        demand |-> DemandRowsOf(old, ZeroMatrix(k), InitialDemand(old))]

OldDbs == {EmptyDb, OldDb(1), OldDb(2)}

\* road files are downloaded unless both are cached, then the .osm.pbf
\* unless it is cached; a download may fail
GetDataFromOSM ==
    /\ main.stage = "get_data_from_OSM"
    /\ \/ /\ main' = [main EXCEPT !.stage = "add_nodes_edges_osmnx",
                                  !.roads_cached = TRUE, !.city_cached = TRUE]
          /\ UNCHANGED raised
       \/ /\ ~main.roads_cached
          /\ main' = [main EXCEPT !.stage = "failed"]
          /\ raised' = "Exception"
       \/ /\ ~main.city_cached
          /\ main' = [main EXCEPT !.stage = "failed", !.roads_cached = TRUE]
          /\ raised' = "Exception"
    /\ UNCHANGED <<pc, num_rows, num_cols, bbox, city, zones, population, land,
                   pois, attraction, production, kind, measure, calls,
                   distances, demand_matrix, db, solved, pending, figure>>

\* the road tables are replaced and committed; tables zone and demand are
\* not touched
AddNodesEdgesOsmnx ==
    /\ main.stage = "add_nodes_edges_osmnx"
    /\ \/ /\ main' = [main EXCEPT !.stage = "add_travel_demand_gravity_model",
                                  !.roads_loaded = TRUE]
          /\ UNCHANGED raised
       \/ /\ main' = [main EXCEPT !.stage = "failed"]
          /\ raised' = "Exception"
    /\ UNCHANGED <<pc, num_rows, num_cols, bbox, city, zones, population, land,
                   pois, attraction, production, kind, measure, calls,
                   distances, demand_matrix, db, solved, pending, figure>>

\* the call of run_gravity_model: a keyword the function does not have
\* raises TypeError before the body is entered
AddTravelDemandGravityModel ==
    /\ main.stage = "add_travel_demand_gravity_model"
    /\ IF Binds(Keywords, Parameters)
       THEN /\ main' = [main EXCEPT !.stage = "run_gravity_model"]
            /\ pc' = "divide"
            /\ num_rows' = 40
            /\ num_cols' = 40
            /\ UNCHANGED raised
       ELSE /\ main' = [main EXCEPT !.stage = "failed"]
            /\ raised' = "TypeError"
            /\ UNCHANGED <<pc, num_rows, num_cols>>
    /\ UNCHANGED <<bbox, city, zones, population, land, pois, attraction,
                   production, kind, measure, calls, distances, demand_matrix,
                   db, solved, pending, figure>>

\* the GTFS tables are filled and committed
AddGtfsData ==
    /\ main.stage = "add_gtfs_data"
    /\ \/ main' = [main EXCEPT !.stage = "close"] /\ UNCHANGED raised
       \/ main' = [main EXCEPT !.stage = "failed"] /\ raised' = "Exception"
    /\ UNCHANGED <<pc, num_rows, num_cols, bbox, city, zones, population, land,
                   pois, attraction, production, kind, measure, calls,
                   distances, demand_matrix, db, solved, pending, figure>>

ConnClose ==
    /\ main.stage = "close"
    /\ main' = [main EXCEPT !.stage = "closed"]
    /\ pending' = Unset
    /\ UNCHANGED <<pc, raised, num_rows, num_cols, bbox, city, zones,
                   population, land, pois, attraction, production, kind,
                   measure, calls, distances, demand_matrix, db, solved, figure>>

MainInit ==
    /\ main \in [stage : {"get_data_from_OSM"}, city : CITY_MAP,
                 roads_cached : BOOLEAN, city_cached : BOOLEAN,
                 roads_loaded : {FALSE}]
    /\ db \in OldDbs
    /\ pc = "not called"
    /\ raised = "none"
    /\ num_rows = 0
    /\ num_cols = 0
    /\ bbox = Unset
    /\ city = Unset
    /\ zones = Unset
    /\ population = Unset
    /\ land = Unset
    /\ pois = Unset
    /\ attraction = Unset
    /\ production = Unset
    /\ kind = "np"
    /\ measure = Unset
    /\ calls = Unset
    /\ distances = Unset
    /\ demand_matrix = Unset
    /\ solved = Unset
    /\ pending = Unset
    /\ figure = "none"

\* the stages main reaches; add_gtfs_data and conn.close() follow a call
\* that returned
MainNext ==
    \/ GetDataFromOSM
    \/ AddNodesEdgesOsmnx
    \/ AddTravelDemandGravityModel

\* main runs to its end or to an exception without waiting for anything
MainSpec == MainInit /\ [][MainNext]_vars /\ WF_vars(MainNext)

\* C23: whenever main has reached its third stage, the call of
\* run_gravity_model is accepted with a 40 x 40 grid and main goes on to
\* close the connection
C23_DemandStageCompletes ==
    (main.stage = "add_travel_demand_gravity_model") ~>
        (num_rows = 40 /\ num_cols = 40 /\ main.stage = "closed")

(***************************************************************************)
(* load_db statement by statement.  The connection is in Python's default  *)
(* transaction mode: the first DELETE opens a transaction, and nothing is  *)
(* committed before conn.commit().                                         *)
(***************************************************************************)
\* the rows executemany has inserted when its k-th statement is reached
ZonePrefix(zs, k) == {row \in ZoneRowsOf(zs) : row[1] < k}

DemandPrefix(zs, dist, dm, k) ==
    {row \in DemandRowsOf(zs, dist, dm) : row[1] * Len(zs) + row[2] < k}

LoadFrame ==
    UNCHANGED <<num_rows, num_cols, bbox, city, zones, population, land, pois,
                attraction, production, kind, measure, calls, distances,
                demand_matrix, solved, figure, main>>

\* the connection commits every statement by itself
LoadDbDeleteZoneAutocommit ==
    /\ pc = "load_db"
    /\ pending' = Unset
    /\ db' = [db EXCEPT !.zone = {}]
    /\ pc' = "delete_demand"
    /\ UNCHANGED raised
    /\ LoadFrame

LoadDbDeleteZone ==
    /\ pc = "load_db"
    /\ pending' = [zone |-> {}, demand |-> db.demand]
    /\ pc' = "delete_demand"
    /\ UNCHANGED <<db, raised>>
    /\ LoadFrame

LoadDbDeleteDemand ==
    /\ pc = "delete_demand"
    /\ pending' = [(IF pending = Unset THEN db ELSE pending) EXCEPT !.demand = {}]
    /\ pc' = "insert_zone"
    /\ UNCHANGED <<db, raised>>
    /\ LoadFrame

\* executemany either inserts every row or raises at one of them, the rows
\* before it staying in the open transaction
LoadDbInsertZone ==
    /\ pc = "insert_zone"
    /\ \/ /\ pending' = [pending EXCEPT !.zone = ZoneRowsOf(zones)]
          /\ pc' = "insert_demand"
          /\ UNCHANGED raised
       \/ \E k \in 0..(Len(zones) - 1) :
             /\ pending' = [pending EXCEPT !.zone = ZonePrefix(zones, k)]
             /\ raised' = "sqlite3.Error"
             /\ pc' = "failed"
    /\ UNCHANGED db
    /\ LoadFrame

LoadDbInsertDemand ==
    /\ pc = "insert_demand"
    /\ \/ /\ pending' = [pending EXCEPT !.demand =
                            DemandRowsOf(zones, distances, demand_matrix)]
          /\ pc' = "commit"
          /\ UNCHANGED raised
       \/ \E k \in 0..(Len(zones) * Len(zones) - 1) :
             /\ pending' = [pending EXCEPT !.demand =
                               DemandPrefix(zones, distances, demand_matrix, k)]
             /\ raised' = "sqlite3.Error"
             /\ pc' = "failed"
    /\ UNCHANGED db
    /\ LoadFrame

LoadDbCommit ==
    /\ pc = "commit"
    /\ db' = pending
    /\ pending' = Unset
    /\ pc' = "done"
    /\ UNCHANGED raised
    /\ LoadFrame

\* the exception leaves run_gravity_model and its caller; the connection
\* goes away without a commit and SQLite rolls the open transaction back
ConnectionReleased ==
    /\ pc = "failed"
    /\ pending # Unset
    /\ pending' = Unset
    /\ UNCHANGED <<pc, db, raised>>
    /\ LoadFrame

LoadInit ==
    /\ pc = "load_db"
    /\ raised = "none"
    /\ \E n \in 1..MaxOrigins :
          /\ zones = TableOf(n)
          /\ attraction \in PeriodAttractionTables(n)
          /\ production \in PeriodProductionTables(n)
          /\ measure = LineMeasure(n)
    /\ distances = calculate_zone_distance(zones, measure).d
    /\ calls = calculate_zone_distance(zones, measure).c
    /\ demand_matrix =
          gravity_model_demand_matrix(zones, production, attraction, distances)
    /\ db \in OldDbs
    /\ kind = "np"
    /\ num_rows = 1
    /\ num_cols = Len(zones)
    /\ bbox = Unset
    /\ city = Unset
    /\ population = Unset
    /\ land = Unset
    /\ pois = Unset
    /\ solved = Unset
    /\ pending = Unset
    /\ figure = "none"
    /\ main = Unset

LoadNext ==
    \/ LoadDbDeleteZone
    \/ LoadDbDeleteDemand
    \/ LoadDbInsertZone
    \/ LoadDbInsertDemand
    \/ LoadDbCommit
    \/ ConnectionReleased

LoadSpec == LoadInit /\ [][LoadNext]_vars

\* C24: the committed tables change in one step only, the commit at the end
\* of load_db, and then to the complete new zone rows together with the
\* complete new demand rows; a step in which an insert fails, and every step
\* after it, leaves the committed rows as they were
C24_AllOrNothing ==
    [][/\ db' # db =>
             /\ pc = "commit"
             /\ pc' = "done"
             /\ db' = [zone |-> ZoneRowsOf(zones),
                       demand |-> DemandRowsOf(zones, distances, demand_matrix)]
       /\ (pc' = "failed" \/ pc = "failed") => db' = db]_vars

\* the insert of the demand rows failed half way: the open transaction holds
\* the new zones and a part of the new demand, the committed tables still
\* hold the rows of the earlier run
C24_Witness ==
    /\ pc = "failed"
    /\ raised = "sqlite3.Error"
    /\ Len(zones) = 3
    /\ pending # Unset
    /\ pending.zone = ZoneRowsOf(zones)
    /\ Cardinality(pending.demand) = 4
    /\ db = OldDb(2)

====
